---- MODULE Spec2Model ----
(***************************************************************************)
(* State-machine model of src/main_rmt.c, the ESP32 double pulse test      *)
(* signal generator.                                                       *)
(*                                                                         *)
(* Two FreeRTOS tasks run the program's code concurrently: the HTTP server *)
(* task ("httpd"), which runs one URI handler at a time, and               *)
(* button_event_task ("button").  The GPIO interrupt service routine and   *)
(* the two RMT channels act beside them.  Every statement of a handler     *)
(* that reads or writes shared state is one step of its task.  The tasks   *)
(* are created without core affinity and button_event_task has the higher  *)
(* priority, so a step of one task may fall between any two steps of the   *)
(* other.                                                                  *)
(*                                                                         *)
(* uint32_t values are kept as two 16-bit halves [hi, lo], so that the     *)
(* 32-bit wrap of a product and the 15-bit duration field of an            *)
(* rmt_item32_t are computed at their real widths.                         *)
(***************************************************************************)
EXTENDS Integers, Sequences, FiniteSets, TLC

\* ------------------------------------------------------------- bounds
\* HTTP requests the server task accepts in one run.
MaxRequests == 2
\* Falling edges on the button line in one run.
MaxPresses == 2

\* ---------------------------------------------------- program constants
TICKS_PER_US == 80
QUEUE_LENGTH == 10
BUTTON_GPIO == 0
PARAM_VAL_SIZE == 10
\* Width of duration0 / duration1 in rmt_item32_t.
DURATION_BITS == 15

\* ------------------------------------------------------------ uint32_t
Half == 2 ^ 16

U32(h, l) == [hi |-> h, lo |-> l]

\* A non-negative int below 2^31 as a uint32_t.
U32OfNat(n) == U32(n \div Half, n % Half)

\* The conversion int -> uint32_t of an assignment (two's complement).
U32OfInt(n) ==
    IF n >= 0 THEN U32OfNat(n)
    ELSE LET m == (n + 2147483647) + 1
         IN  U32(32768 + (m \div Half), m % Half)

\* x * k in uint32_t arithmetic (the product taken modulo 2^32), k < 2^15.
U32Mul(x, k) ==
    LET l == x.lo * k
        h == x.hi * k + (l \div Half)
    IN  U32(h % Half, l % Half)

\* Storing a uint32_t into a bit-field of DURATION_BITS bits keeps the low bits.
DurationField(x) == x.lo % (2 ^ DURATION_BITS)

\* ------------------------------------------------------------- atoi
Digits == {"0", "1", "2", "3", "4", "5", "6", "7", "8", "9"}

DigitVal(c) ==
    CASE c = "0" -> 0 [] c = "1" -> 1 [] c = "2" -> 2 [] c = "3" -> 3
      [] c = "4" -> 4 [] c = "5" -> 5 [] c = "6" -> 6 [] c = "7" -> 7
      [] c = "8" -> 8 [] c = "9" -> 9

RECURSIVE SkipSpace(_, _)
SkipSpace(s, i) ==
    IF i <= Len(s) /\ s[i] = " " THEN SkipSpace(s, i + 1) ELSE i

RECURSIVE AtoiDigits(_, _, _)
AtoiDigits(s, i, acc) ==
    IF i <= Len(s) /\ s[i] \in Digits
    THEN AtoiDigits(s, i + 1, acc * 10 + DigitVal(s[i]))
    ELSE acc

\* atoi: leading blanks, an optional sign, then digits up to the first
\* character that is none; 0 when there is no digit.
Atoi(s) ==
    LET i == SkipSpace(s, 1)
        neg == i <= Len(s) /\ s[i] = "-"
        j == IF i <= Len(s) /\ s[i] \in {"-", "+"} THEN i + 1 ELSE i
        n == AtoiDigits(s, j, 0)
    IN  IF neg THEN 0 - n ELSE n

\* --------------------------------------------------- request bodies
\* A POST body is a sequence of <<key, value>> pairs, a value a sequence of
\* characters.
Txt2 == <<"2">>
Txt3 == <<"3">>
Txt0 == <<"0">>
Txt100 == <<"1", "0", "0">>
TxtNeg1 == <<"-", "1">>
TxtWrap == <<"5", "3", "6", "8", "7", "0", "9", "2">>

Bodies ==
    { <<>>,
      << <<"p1h", Txt2>>, <<"p1l", Txt3>> >>,
      << <<"p2l", Txt100>>, <<"foo", Txt3>> >>,
      << <<"p1h", Txt0>>, <<"p2h", TxtNeg1>> >> }

RECURSIVE FindKey(_, _, _)
FindKey(body, key, i) ==
    IF i > Len(body) THEN 0
    ELSE IF body[i][1] = key THEN i ELSE FindKey(body, key, i + 1)

\* httpd_query_key_value(content, key, param_val, sizeof(param_val)):
\* ESP_OK with the value when the key is there and the value and its
\* terminator fit the buffer.
QueryKeyValue(body, key) ==
    LET i == FindKey(body, key, 1)
    IN  IF i = 0 THEN [err |-> "ESP_ERR_NOT_FOUND", val |-> <<>>]
        ELSE IF Len(body[i][2]) + 1 > PARAM_VAL_SIZE
             THEN [err |-> "ESP_ERR_HTTPD_RESULT_TRUNC", val |-> <<>>]
             ELSE [err |-> "ESP_OK", val |-> body[i][2]]

\* A variant that does not look at the result of the query.
SetFieldUnchecked(body, key, cur) ==
    U32OfInt(Atoi(QueryKeyValue(body, key).val))

\* One field's statement of set_params_handler: the new value of the
\* global, given its current one.
SetField(body, key, cur) ==
    LET q == QueryKeyValue(body, key)
    IN  IF q.err = "ESP_OK" THEN U32OfInt(Atoi(q.val)) ELSE cur

\* ------------------------------------------------------- waveforms
Item(d0, l0, d1, l1) ==
    [duration0 |-> DurationField(d0), level0 |-> l0,
     duration1 |-> DurationField(d1), level1 |-> l1]

\* double_pulse_items_p of send_double_pulse, from its four tick counts.
ItemsP(p1h, p1l, p2h, p2l) ==
    << Item(p1h, 1, p1l, 0), Item(p2h, 1, p2l, 0) >>

\* A variant whose last level is copied from the positive array.
ItemsNCopied(p1h, p1l, p2h, p2l) ==
    << Item(p1h, 0, p1l, 1), Item(p2h, 0, p2l, 0) >>

\* double_pulse_items_n of send_double_pulse.
ItemsN(p1h, p1l, p2h, p2l) ==
    << Item(p1h, 0, p1l, 1), Item(p2h, 0, p2l, 1) >>

\* pulse * 80 of send_double_pulse.
ToTicks(v) == U32Mul(v, TICKS_PER_US)

\* ------------------------------------------------------------ state
Tasks == {"httpd", "button"}
Channels == {"P", "N"}

VARIABLES
    pulse1_high, pulse1_low, pulse2_high, pulse2_low,  \* the four globals
    button_evt_queue,   \* the FreeRTOS queue of gpio numbers
    intr_enabled,       \* whether the interrupt of BUTTON_GPIO is enabled
    pc,                 \* each task's next statement
    loc,                \* each task's frame of send_double_pulse
    content,            \* the body set_params_handler received
    io_num,             \* button_event_task's received gpio number
    chan,               \* each RMT channel: its loaded items, transmitting or not
    aborted,            \* abort() was called (a failed ESP_ERROR_CHECK)
    resp,               \* the response the server task sent last
    requests,           \* HTTP requests accepted so far
    presses,            \* falling edges on the button line so far
    committed,          \* history: the parameter records whole set requests produce
    wrote,              \* history: per task, when a global was stored since
                        \* its generation began: "no", "reading" or "read"
    failed              \* history: per task, the driver call that failed in
                        \* its generation: "none", "load" or "start"

params == <<pulse1_high, pulse1_low, pulse2_high, pulse2_low>>
vars == <<pulse1_high, pulse1_low, pulse2_high, pulse2_low, button_evt_queue,
          intr_enabled, pc, loc, content, io_num, chan, aborted, resp,
          requests, presses, committed, wrote, failed>>

Zero == U32(0, 0)
NoItems == <<>>

\* The frame of send_double_pulse before its first statement.  snap keeps
\* the values the four reads of the globals returned.
EmptyFrame ==
    [snap |-> <<Zero, Zero, Zero, Zero>>,
     p1h |-> Zero, p1l |-> Zero, p2h |-> Zero, p2l |-> Zero,
     items_p |-> NoItems, items_n |-> NoItems]

\* The globals' initialisers.
Defaults == <<U32OfNat(5), U32OfNat(1), U32OfNat(3), U32OfNat(10000)>>

Init ==
    /\ pulse1_high = Defaults[1]
    /\ pulse1_low = Defaults[2]
    /\ pulse2_high = Defaults[3]
    /\ pulse2_low = Defaults[4]
    /\ button_evt_queue = <<>>
    /\ intr_enabled = TRUE
    /\ pc = [t \in Tasks |-> IF t = "httpd" THEN "accept" ELSE "recv"]
    /\ loc = [t \in Tasks |-> EmptyFrame]
    /\ content = <<>>
    /\ io_num = BUTTON_GPIO
    /\ chan = [c \in Channels |-> [items |-> NoItems, running |-> FALSE]]
    /\ aborted = FALSE
    /\ resp = [kind |-> "none", values |-> <<>>]
    /\ requests = 0
    /\ presses = 0
    /\ committed = {Defaults}
    /\ wrote = [t \in Tasks |-> "no"]
    /\ failed = [t \in Tasks |-> "none"]

\* The statements of send_double_pulse, in order.
SdpPcs == <<"rd_p1h", "rd_p1l", "rd_p2h", "rd_p2l", "stopP", "stopN",
            "writeP", "writeN", "settle", "startP", "startN", "waitP", "waitN">>
SdpSet == {SdpPcs[i] : i \in 1..Len(SdpPcs)}

\* Where send_double_pulse returns to.
ReturnPc(t) == IF t = "httpd" THEN "trig_resp" ELSE "delay2"

\* The task has read all four globals and built its item arrays.
PostRead == {"stopP", "stopN", "writeP", "writeN", "settle", "startP",
             "startN", "waitP", "waitN"}
\* Between the first channel stop and the return of the last wait.
Transmitting == PostRead \ {"stopP"}
Reading == {"rd_p1h", "rd_p1l", "rd_p2h", "rd_p2l"}

\* --------------------------------------------------- set_params_handler
\* What the four statements of set_params_handler make of the globals when
\* nothing runs between them.
SetResult(body, cur) ==
    << SetField(body, "p1h", cur[1]), SetField(body, "p1l", cur[2]),
       SetField(body, "p2h", cur[3]), SetField(body, "p2l", cur[4]) >>

\* History: a store to a global, seen from each task's running generation.
NoteStore(stored) ==
    [t \in Tasks |->
        IF stored /\ pc[t] \in SdpSet /\ wrote[t] = "no"
        THEN (IF pc[t] \in Reading THEN "reading" ELSE "read")
        ELSE wrote[t]]

Stores(key) == QueryKeyValue(content, key).err = "ESP_OK"

\* httpd_req_recv and the check of its result: an empty body ends the
\* handler with ESP_FAIL.
SetRecv(body) ==
    /\ ~aborted
    /\ pc["httpd"] = "accept"
    /\ requests < MaxRequests
    /\ requests' = requests + 1
    /\ IF Len(body) <= 0
       THEN /\ resp' = [kind |-> "ESP_FAIL", values |-> <<>>]
            /\ UNCHANGED <<pc, content, committed,
                   failed>>
       ELSE /\ content' = body
            /\ pc' = [pc EXCEPT !["httpd"] = "set_p1h"]
            /\ committed' = committed \cup {SetResult(body, params)}
            /\ resp' = [kind |-> "none", values |-> <<>>]
    /\ UNCHANGED <<pulse1_high, pulse1_low, pulse2_high, pulse2_low,
                   button_evt_queue, intr_enabled, loc, io_num, chan,
                   aborted, presses, wrote, failed>>

SetP1h ==
    /\ ~aborted
    /\ pc["httpd"] = "set_p1h"
    /\ pulse1_high' = SetField(content, "p1h", pulse1_high)
    /\ wrote' = NoteStore(Stores("p1h"))
    /\ pc' = [pc EXCEPT !["httpd"] = "set_p1l"]
    /\ UNCHANGED <<pulse1_low, pulse2_high, pulse2_low, button_evt_queue,
                   intr_enabled, loc, content, io_num, chan, aborted, resp,
                   requests, presses, committed,
                   failed>>

SetP1l ==
    /\ ~aborted
    /\ pc["httpd"] = "set_p1l"
    /\ pulse1_low' = SetField(content, "p1l", pulse1_low)
    /\ wrote' = NoteStore(Stores("p1l"))
    /\ pc' = [pc EXCEPT !["httpd"] = "set_p2h"]
    /\ UNCHANGED <<pulse1_high, pulse2_high, pulse2_low, button_evt_queue,
                   intr_enabled, loc, content, io_num, chan, aborted, resp,
                   requests, presses, committed,
                   failed>>

SetP2h ==
    /\ ~aborted
    /\ pc["httpd"] = "set_p2h"
    /\ pulse2_high' = SetField(content, "p2h", pulse2_high)
    /\ wrote' = NoteStore(Stores("p2h"))
    /\ pc' = [pc EXCEPT !["httpd"] = "set_p2l"]
    /\ UNCHANGED <<pulse1_high, pulse1_low, pulse2_low, button_evt_queue,
                   intr_enabled, loc, content, io_num, chan, aborted, resp,
                   requests, presses, committed,
                   failed>>

\* The last field, then the response and the return.
SetP2l ==
    /\ ~aborted
    /\ pc["httpd"] = "set_p2l"
    /\ pulse2_low' = SetField(content, "p2l", pulse2_low)
    /\ wrote' = NoteStore(Stores("p2l"))
    /\ resp' = [kind |-> "Parameters Set!", values |-> <<>>]
    /\ content' = <<>>
    /\ pc' = [pc EXCEPT !["httpd"] = "accept"]
    /\ UNCHANGED <<pulse1_high, pulse1_low, pulse2_high, button_evt_queue,
                   intr_enabled, loc, io_num, chan, aborted, requests,
                   presses, committed,
                   failed>>

set_params_handler ==
    \/ \E body \in Bodies : SetRecv(body)
    \/ SetP1h
    \/ SetP1l
    \/ SetP2h
    \/ SetP2l

\* ----------------------------------------------------------- get_handler
\* The page is printed from the four globals by the server task itself.
get_handler ==
    /\ ~aborted
    /\ pc["httpd"] = "accept"
    /\ requests < MaxRequests
    /\ requests' = requests + 1
    /\ resp' = [kind |-> "page", values |-> params]
    /\ UNCHANGED <<pulse1_high, pulse1_low, pulse2_high, pulse2_low,
                   button_evt_queue, intr_enabled, pc, loc, content, io_num,
                   chan, aborted, presses, committed, wrote, failed>>

\* ---------------------------------------------------- send_double_pulse
\* The call: a fresh frame, control at the first statement.
Call(t) ==
    /\ pc' = [pc EXCEPT ![t] = "rd_p1h"]
    /\ loc' = [loc EXCEPT ![t] = EmptyFrame]
    /\ wrote' = [wrote EXCEPT ![t] = "no"]

\* uint32_t p1h = pulse1_high * 80;
RdP1h(t) ==
    /\ ~aborted
    /\ pc[t] = "rd_p1h"
    /\ loc' = [loc EXCEPT ![t].snap[1] = pulse1_high,
                          ![t].p1h = ToTicks(pulse1_high)]
    /\ pc' = [pc EXCEPT ![t] = "rd_p1l"]
    /\ UNCHANGED <<pulse1_high, pulse1_low, pulse2_high, pulse2_low,
                   button_evt_queue, intr_enabled, content, io_num, chan,
                   aborted, resp, requests, presses, committed, wrote, failed>>

RdP1l(t) ==
    /\ ~aborted
    /\ pc[t] = "rd_p1l"
    /\ loc' = [loc EXCEPT ![t].snap[2] = pulse1_low,
                          ![t].p1l = ToTicks(pulse1_low)]
    /\ pc' = [pc EXCEPT ![t] = "rd_p2h"]
    /\ UNCHANGED <<pulse1_high, pulse1_low, pulse2_high, pulse2_low,
                   button_evt_queue, intr_enabled, content, io_num, chan,
                   aborted, resp, requests, presses, committed, wrote, failed>>

RdP2h(t) ==
    /\ ~aborted
    /\ pc[t] = "rd_p2h"
    /\ loc' = [loc EXCEPT ![t].snap[3] = pulse2_high,
                          ![t].p2h = ToTicks(pulse2_high)]
    /\ pc' = [pc EXCEPT ![t] = "rd_p2l"]
    /\ UNCHANGED <<pulse1_high, pulse1_low, pulse2_high, pulse2_low,
                   button_evt_queue, intr_enabled, content, io_num, chan,
                   aborted, resp, requests, presses, committed, wrote, failed>>

\* The last read, and the two item arrays built from the four locals.
RdP2l(t) ==
    /\ ~aborted
    /\ pc[t] = "rd_p2l"
    /\ LET p2l == ToTicks(pulse2_low)
           f == loc[t]
       IN  loc' = [loc EXCEPT
                ![t].snap[4] = pulse2_low,
                ![t].p2l = p2l,
                ![t].items_p = ItemsP(f.p1h, f.p1l, f.p2h, p2l),
                ![t].items_n = ItemsN(f.p1h, f.p1l, f.p2h, p2l)]
    /\ pc' = [pc EXCEPT ![t] = "stopP"]
    /\ UNCHANGED <<pulse1_high, pulse1_low, pulse2_high, pulse2_low,
                   button_evt_queue, intr_enabled, content, io_num, chan,
                   aborted, resp, requests, presses, committed, wrote, failed>>

\* rmt_tx_stop(channel)
TxStop(t, at, c, next) ==
    /\ ~aborted
    /\ pc[t] = at
    /\ chan' = [chan EXCEPT ![c].running = FALSE]
    /\ pc' = [pc EXCEPT ![t] = next]
    /\ UNCHANGED <<pulse1_high, pulse1_low, pulse2_high, pulse2_low,
                   button_evt_queue, intr_enabled, loc, content, io_num,
                   aborted, resp, requests, presses, committed, wrote, failed>>

\* The array compiled from the globals as they are now.
CompiledNow(c) ==
    IF c = "P"
    THEN ItemsP(ToTicks(pulse1_high), ToTicks(pulse1_low),
                ToTicks(pulse2_high), ToTicks(pulse2_low))
    ELSE ItemsN(ToTicks(pulse1_high), ToTicks(pulse1_low),
                ToTicks(pulse2_high), ToTicks(pulse2_low))

\* A variant that builds the array from the globals when it is loaded.
WrittenItemsLate(t, c) == CompiledNow(c)

\* The array send_double_pulse hands to rmt_write_items for a channel.
WrittenItems(t, c) == IF c = "P" THEN loc[t].items_p ELSE loc[t].items_n

\* ESP_ERROR_CHECK(rmt_write_items(channel, items, 2, false)): the driver
\* copies the items into the channel's memory and begins to send them (the
\* last argument only says not to wait for the end); any error aborts.
WriteItems(t, at, c, next) ==
    /\ ~aborted
    /\ pc[t] = at
    /\ \E ok \in BOOLEAN :
        IF ok
        THEN /\ chan' = [chan EXCEPT ![c] = [items |-> WrittenItems(t, c),
                                             running |-> TRUE]]
             /\ pc' = [pc EXCEPT ![t] = next]
             /\ UNCHANGED <<aborted, failed>>
        ELSE /\ aborted' = TRUE
             /\ failed' = [failed EXCEPT ![t] = "load"]
             /\ UNCHANGED <<chan, pc>>
    /\ UNCHANGED <<pulse1_high, pulse1_low, pulse2_high, pulse2_low,
                   button_evt_queue, intr_enabled, loc, content, io_num,
                   resp, requests, presses, committed, wrote>>

\* vTaskDelay(50)
Settle(t) ==
    /\ ~aborted
    /\ pc[t] = "settle"
    /\ pc' = [pc EXCEPT ![t] = "startP"]
    /\ UNCHANGED <<pulse1_high, pulse1_low, pulse2_high, pulse2_low,
                   button_evt_queue, intr_enabled, loc, content, io_num, chan,
                   aborted, resp, requests, presses, committed, wrote, failed>>

\* rmt_tx_start(channel, true), its result not looked at: the channel sends
\* its memory from the first item, or the call fails and changes nothing.
TxStart(t, at, c, next) ==
    /\ ~aborted
    /\ pc[t] = at
    /\ \E ok \in BOOLEAN :
        /\ chan' = [chan EXCEPT ![c].running = IF ok THEN TRUE ELSE @]
        /\ failed' = [failed EXCEPT ![t] = IF ok THEN @ ELSE "start"]
    /\ pc' = [pc EXCEPT ![t] = next]
    /\ UNCHANGED <<pulse1_high, pulse1_low, pulse2_high, pulse2_low,
                   button_evt_queue, intr_enabled, loc, content, io_num,
                   aborted, resp, requests, presses, committed, wrote>>

\* rmt_wait_tx_done(RMT_TX_CHANNEL_P, portMAX_DELAY)
WaitP(t) ==
    /\ ~aborted
    /\ pc[t] = "waitP"
    /\ ~chan["P"].running
    /\ pc' = [pc EXCEPT ![t] = "waitN"]
    /\ UNCHANGED <<pulse1_high, pulse1_low, pulse2_high, pulse2_low,
                   button_evt_queue, intr_enabled, loc, content, io_num, chan,
                   aborted, resp, requests, presses, committed, wrote, failed>>

\* rmt_wait_tx_done(RMT_TX_CHANNEL_N, portMAX_DELAY), then the return.
WaitN(t) ==
    /\ ~aborted
    /\ pc[t] = "waitN"
    /\ ~chan["N"].running
    /\ pc' = [pc EXCEPT ![t] = ReturnPc(t)]
    /\ loc' = [loc EXCEPT ![t] = EmptyFrame]
    /\ wrote' = [wrote EXCEPT ![t] = "no"]
    /\ UNCHANGED <<pulse1_high, pulse1_low, pulse2_high, pulse2_low,
                   button_evt_queue, intr_enabled, content, io_num, chan,
                   aborted, resp, requests, presses, committed,
                   failed>>

send_double_pulse(t) ==
    \/ RdP1h(t)
    \/ RdP1l(t)
    \/ RdP2h(t)
    \/ RdP2l(t)
    \/ TxStop(t, "stopP", "P", "stopN")
    \/ TxStop(t, "stopN", "N", "writeP")
    \/ WriteItems(t, "writeP", "P", "writeN")
    \/ WriteItems(t, "writeN", "N", "settle")
    \/ Settle(t)
    \/ TxStart(t, "startP", "P", "startN")
    \/ TxStart(t, "startN", "N", "waitP")
    \/ WaitP(t)
    \/ WaitN(t)

\* A channel reaches the end of its items.
TxDone(c) ==
    /\ chan[c].running
    /\ chan' = [chan EXCEPT ![c].running = FALSE]
    /\ UNCHANGED <<pulse1_high, pulse1_low, pulse2_high, pulse2_low,
                   button_evt_queue, intr_enabled, pc, loc, content, io_num,
                   aborted, resp, requests, presses, committed, wrote, failed>>

\* ------------------------------------------------------ trigger_handler
TriggerAccept ==
    /\ ~aborted
    /\ pc["httpd"] = "accept"
    /\ requests < MaxRequests
    /\ requests' = requests + 1
    /\ pc' = [pc EXCEPT !["httpd"] = "trig_delay"]
    /\ resp' = [kind |-> "none", values |-> <<>>]
    /\ UNCHANGED <<pulse1_high, pulse1_low, pulse2_high, pulse2_low,
                   button_evt_queue, intr_enabled, loc, content, io_num, chan,
                   aborted, presses, committed, wrote, failed>>

\* vTaskDelay(pdMS_TO_TICKS(1000)); send_double_pulse();
TriggerCall ==
    /\ ~aborted
    /\ pc["httpd"] = "trig_delay"
    /\ Call("httpd")
    /\ UNCHANGED <<pulse1_high, pulse1_low, pulse2_high, pulse2_low,
                   button_evt_queue, intr_enabled, content, io_num, chan,
                   aborted, resp, requests, presses, committed,
                   failed>>

\* httpd_resp_send(req, "Triggered!", ...); return ESP_OK;
TriggerResp ==
    /\ ~aborted
    /\ pc["httpd"] = "trig_resp"
    /\ resp' = [kind |-> "Triggered!", values |-> <<>>]
    /\ pc' = [pc EXCEPT !["httpd"] = "accept"]
    /\ UNCHANGED <<pulse1_high, pulse1_low, pulse2_high, pulse2_low,
                   button_evt_queue, intr_enabled, loc, content, io_num, chan,
                   aborted, requests, presses, committed, wrote>>
    /\ failed' = [failed EXCEPT !["httpd"] = "none"]

trigger_handler ==
    \/ TriggerAccept
    \/ TriggerCall
    \/ TriggerResp

\* --------------------------------------------------- button_isr_handler
\* gpio_intr_disable(gpio_num); xQueueSendFromISR(...), which fails on a
\* full queue and is not checked.
IsrLeavesEnabled(en) == en

\* gpio_intr_disable(gpio_num): the interrupt's enable bit afterwards.
IsrDisable(en) == FALSE

\* A variant that posts the event twice.
QueueSendTwice(q, item) == q \o <<item, item>>

\* A variant that posts nothing.
QueueSendDrops(q, item) == q

\* xQueueSendFromISR(queue, &item, ...): the queue afterwards; a full
\* queue takes nothing and the call returns at once.
QueueSendFromISR(q, item) ==
    IF Len(q) < QUEUE_LENGTH THEN Append(q, item) ELSE q

button_isr_handler(gpio_num) ==
    /\ intr_enabled' = IsrDisable(intr_enabled)
    /\ button_evt_queue' = QueueSendFromISR(button_evt_queue, gpio_num)

\* A falling edge on the button line: the handler runs when the interrupt
\* is enabled, and the edge is lost otherwise (gpio_intr_enable clears the
\* pending status before it enables).
ButtonPress ==
    /\ ~aborted
    /\ presses < MaxPresses
    /\ presses' = presses + 1
    /\ IF intr_enabled
       THEN button_isr_handler(BUTTON_GPIO)
       ELSE UNCHANGED <<intr_enabled, button_evt_queue,
                   failed>>
    /\ UNCHANGED <<pulse1_high, pulse1_low, pulse2_high, pulse2_low, pc, loc,
                   content, io_num, chan, aborted, resp, requests, committed,
                   wrote, failed>>

\* ---------------------------------------------------- button_event_task
\* xQueueReceive(button_evt_queue, &io_num, portMAX_DELAY)
ButtonRecv ==
    /\ ~aborted
    /\ pc["button"] = "recv"
    /\ button_evt_queue # <<>>
    /\ io_num' = Head(button_evt_queue)
    /\ button_evt_queue' = Tail(button_evt_queue)
    /\ pc' = [pc EXCEPT !["button"] = "delay1"]
    /\ UNCHANGED <<pulse1_high, pulse1_low, pulse2_high, pulse2_low,
                   intr_enabled, loc, content, chan, aborted, resp, requests,
                   presses, committed, wrote, failed>>

\* vTaskDelay(pdMS_TO_TICKS(1000)); send_double_pulse();
ButtonCall ==
    /\ ~aborted
    /\ pc["button"] = "delay1"
    /\ Call("button")
    /\ UNCHANGED <<pulse1_high, pulse1_low, pulse2_high, pulse2_low,
                   button_evt_queue, intr_enabled, content, io_num, chan,
                   aborted, resp, requests, presses, committed,
                   failed>>

\* vTaskDelay(pdMS_TO_TICKS(200));
ButtonRearmDelay ==
    /\ ~aborted
    /\ pc["button"] = "delay2"
    /\ pc' = [pc EXCEPT !["button"] = "enable"]
    /\ UNCHANGED <<pulse1_high, pulse1_low, pulse2_high, pulse2_low,
                   button_evt_queue, intr_enabled, loc, content, io_num, chan,
                   aborted, resp, requests, presses, committed, wrote>>
    /\ failed' = [failed EXCEPT !["button"] = "none"]

\* gpio_intr_enable(io_num);
ButtonEnable ==
    /\ ~aborted
    /\ pc["button"] = "enable"
    /\ intr_enabled' = TRUE
    /\ pc' = [pc EXCEPT !["button"] = "recv"]
    /\ UNCHANGED <<pulse1_high, pulse1_low, pulse2_high, pulse2_low,
                   button_evt_queue, loc, content, io_num, chan, aborted,
                   resp, requests, presses, committed, wrote, failed>>

button_event_task ==
    \/ ButtonRecv
    \/ ButtonCall
    \/ ButtonRearmDelay
    \/ ButtonEnable

\* ------------------------------------------------------- specification
Next ==
    \/ set_params_handler
    \/ get_handler
    \/ trigger_handler
    \/ button_event_task
    \/ ButtonPress
    \/ \E t \in Tasks : send_double_pulse(t)
    \/ \E c \in Channels : TxDone(c)

Spec == Init /\ [][Next]_vars

\* The compilation alone: button_event_task runs one generation from every
\* combination of parameter values a set request can leave in the globals.
ParamValues ==
    { U32OfNat(0), U32OfNat(5), U32OfNat(409), U32OfNat(410),
      U32OfNat(10000), U32OfInt(Atoi(TxtWrap)), U32OfInt(Atoi(TxtNeg1)) }

InitCompile ==
    /\ pulse1_high \in ParamValues
    /\ pulse1_low \in ParamValues
    /\ pulse2_high \in ParamValues
    /\ pulse2_low \in ParamValues
    /\ button_evt_queue = <<BUTTON_GPIO>>
    /\ intr_enabled = FALSE
    /\ pc = [t \in Tasks |-> IF t = "httpd" THEN "accept" ELSE "recv"]
    /\ loc = [t \in Tasks |-> EmptyFrame]
    /\ content = <<>>
    /\ io_num = BUTTON_GPIO
    /\ chan = [c \in Channels |-> [items |-> NoItems, running |-> FALSE]]
    /\ aborted = FALSE
    /\ resp = [kind |-> "none", values |-> <<>>]
    /\ requests = 0
    /\ presses = 1
    /\ committed = {params}
    /\ wrote = [t \in Tasks |-> "no"]
    /\ failed = [t \in Tasks |-> "none"]

NextCompile ==
    \/ button_event_task
    \/ send_double_pulse("button")
    \/ \E c \in Channels : TxDone(c)

SpecCompile == InitCompile /\ [][NextCompile]_vars

\* ================================================================ claims
Other(t) == IF t = "httpd" THEN "button" ELSE "httpd"

\* The task has loaded the positive channel in this generation.
Loaded == {"writeN", "settle", "startP", "startN", "waitP", "waitN"}

\* The value times 80 fits the duration field of an item.
Fits(v) == v.hi = 0 /\ v.lo * TICKS_PER_US < 2 ^ DURATION_BITS

\* d is the value times 80, as a number.
ExactTicks(v, d) == v.hi = 0 /\ v.lo * TICKS_PER_US = d

SnapItemsP(t) ==
    ItemsP(ToTicks(loc[t].snap[1]), ToTicks(loc[t].snap[2]),
           ToTicks(loc[t].snap[3]), ToTicks(loc[t].snap[4]))

SnapItemsN(t) ==
    ItemsN(ToTicks(loc[t].snap[1]), ToTicks(loc[t].snap[2]),
           ToTicks(loc[t].snap[3]), ToTicks(loc[t].snap[4]))

\* C1: at most one generation is in progress at any time: the two tasks are
\* never both between their first channel stop and their last wait.
C1_OneGenerationAtATime ==
    ~(pc["httpd"] \in Transmitting /\ pc["button"] \in Transmitting)

\* C2: a trigger that arrives while a generation is in progress is dropped:
\* no task enters send_double_pulse while the other task is transmitting.
C2_BusyTriggerDropped ==
    [][\A t \in Tasks :
          (pc[t] \notin SdpSet /\ pc'[t] = "rd_p1h")
              => pc[Other(t)] \notin Transmitting]_vars

\* C3: a set request is atomic with respect to readers: the four values a
\* generation has read, and the four a page shows, are always one of the
\* records a whole set request leaves, never a mix of two of them.
C3_NoTornRead ==
    /\ \A t \in Tasks : pc[t] \in PostRead => loc[t].snap \in committed
    /\ resp.kind = "page" => resp.values \in committed

\* C4: a set request that stores while a generation is past its reads
\* changes neither that generation's arrays nor a channel's memory, each
\* channel is loaded with the array compiled from the values the generation
\* read, and a generation during which no global was stored is compiled
\* from the globals as they are.
C4_LoadsItsSnapshot ==
    \A t \in Tasks :
        /\ (pc[t] = "writeP" /\ pc'[t] = "writeN")
              => chan'["P"].items = SnapItemsP(t)
        /\ (pc[t] = "writeN" /\ pc'[t] = "settle")
              => chan'["N"].items = SnapItemsN(t)
        /\ (pc[t] \in PostRead /\ params' # params)
              => (loc'[t] = loc[t] /\ chan' = chan)

C4_CleanIsCurrent ==
    \A t \in Tasks :
        (pc[t] \in PostRead /\ wrote[t] = "no")
            => /\ loc[t].snap = params
               /\ loc[t].items_p = CompiledNow("P")
               /\ loc[t].items_n = CompiledNow("N")

C4_SetDuringGeneration ==
    [][C4_LoadsItsSnapshot]_vars /\ []C4_CleanIsCurrent

\* C4's case: the button's generation read the defaults, a whole set request
\* stored after that, and the positive channel then got the old waveform.
C4_Witness ==
    /\ pc["button"] = "writeN"
    /\ wrote["button"] = "read"
    /\ pc["httpd"] = "accept"
    /\ resp.kind = "Parameters Set!"
    /\ loc["button"].snap # params
    /\ chan["P"].items = SnapItemsP("button")
    /\ chan["P"].items # CompiledNow("P")

\* C5: the positive array is (high, p1h*80), (low, p1l*80), (high, p2h*80),
\* (low, p2l*80) for every four values read.
C5_PositiveExact ==
    \A t \in Tasks :
        pc[t] \in PostRead =>
            LET it == loc[t].items_p
                sn == loc[t].snap
            IN  /\ Len(it) = 2
                /\ it[1].level0 = 1 /\ ExactTicks(sn[1], it[1].duration0)
                /\ it[1].level1 = 0 /\ ExactTicks(sn[2], it[1].duration1)
                /\ it[2].level0 = 1 /\ ExactTicks(sn[3], it[2].duration0)
                /\ it[2].level1 = 0 /\ ExactTicks(sn[4], it[2].duration1)

\* C6: a tick count that does not fit is never truncated: a generation that
\* read such a value loads no channel.
C6_OverflowRejected ==
    \A t \in Tasks :
        pc[t] \in Loaded => \A i \in 1..4 : Fits(loc[t].snap[i])

\* C7: the globals start at 5, 1, 3, 10000, and a generation before any set
\* request builds (1,400)(0,80)(1,240)(0,800000) and its inversion.
C7_DefaultWaveform ==
    /\ requests = 0 => params = Defaults
    /\ \A t \in Tasks :
        (pc[t] \in PostRead /\ committed = {Defaults}) =>
            /\ loc[t].items_p =
                 << [duration0 |-> 400, level0 |-> 1,
                     duration1 |-> 80, level1 |-> 0],
                    [duration0 |-> 240, level0 |-> 1,
                     duration1 |-> 800000, level1 |-> 0] >>
            /\ loc[t].items_n =
                 << [duration0 |-> 400, level0 |-> 0,
                     duration1 |-> 80, level1 |-> 1],
                    [duration0 |-> 240, level0 |-> 0,
                     duration1 |-> 800000, level1 |-> 1] >>

\* C8: the negative array has as many items as the positive one, and each
\* of its segments has the positive segment's duration and the other level.
C8_NegativeIsInversion ==
    \A t \in Tasks :
        pc[t] \in PostRead =>
            LET ip == loc[t].items_p
                ng == loc[t].items_n
            IN  /\ Len(ng) = Len(ip)
                /\ Len(ip) = 2
                /\ \A i \in 1..Len(ip) :
                      /\ ng[i].duration0 = ip[i].duration0
                      /\ ng[i].duration1 = ip[i].duration1
                      /\ ng[i].level0 = 1 - ip[i].level0
                      /\ ng[i].level1 = 1 - ip[i].level1

\* C8's case: arrays built from values of which some overflow the field.
C8_Witness ==
    /\ pc["button"] = "stopP"
    /\ loc["button"].snap[1] = U32OfNat(409)
    /\ loc["button"].snap[4] = U32OfNat(10000)
    /\ loc["button"].items_p[1].duration0 = 32720
    /\ loc["button"].items_n[2].duration1 = 13568
    /\ loc["button"].items_n[2].level1 = 1

\* C9: from the handler's run until the worker re-enables it the button
\* interrupt is disabled, so an edge in between queues nothing: at most one
\* event is queued or being served, and the interrupt is enabled only while
\* the worker waits on an empty queue.
C9_ButtonDebounce ==
    /\ (button_evt_queue # <<>> \/ pc["button"] # "recv") => ~intr_enabled
    /\ Len(button_evt_queue) + (IF pc["button"] # "recv" THEN 1 ELSE 0) <= 1

\* C9's case: a second edge came while the first press's generation, the
\* only one so far, was still before its load; it queued nothing.
C9_Witness ==
    /\ presses = 2
    /\ requests = 0
    /\ ~aborted
    /\ pc["button"] = "writeP"
    /\ chan["P"].items = NoItems
    /\ button_evt_queue = <<>>
    /\ ~intr_enabled

\* C10: a failed load does not end the program: no task is stopped inside
\* send_double_pulse.
C10_ReturnsToIdle ==
    ~(aborted /\ \E t \in Tasks : pc[t] \in SdpSet)

\* The keys set_params_handler looks for.
Keys == {"p1h", "p1l", "p2h", "p2l"}

\* The body in hand has the key.
Supplied(key) == FindKey(content, key, 1) # 0

\* The text is a non-negative integer: one digit or more and nothing else.
WellFormed(s) == Len(s) > 0 /\ \A i \in 1..Len(s) : s[i] \in Digits

Malformed(key) ==
    Supplied(key) /\ ~WellFormed(content[FindKey(content, key, 1)][2])

\* C12: a supplied value that is no non-negative integer is rejected for its
\* field only: the field's statement leaves the global as it was, and the
\* request does not answer with success.
C12_MalformedRejected ==
    [][/\ (pc["httpd"] = "set_p1h" /\ Malformed("p1h"))
             => pulse1_high' = pulse1_high
       /\ (pc["httpd"] = "set_p1l" /\ Malformed("p1l"))
             => pulse1_low' = pulse1_low
       /\ (pc["httpd"] = "set_p2h" /\ Malformed("p2h"))
             => pulse2_high' = pulse2_high
       /\ (pc["httpd"] = "set_p2l" /\ Malformed("p2l"))
             => pulse2_low' = pulse2_low
       /\ (pc["httpd"] = "set_p2l" /\ pc'["httpd"] = "accept"
             /\ \E k \in Keys : Malformed(k))
             => resp'.kind # "Parameters Set!"]_vars

SetPcs == {"set_p1h", "set_p1l", "set_p2h", "set_p2l"}

\* C13: a set request changes only the fields it supplies: a global changes
\* only in its own statement of a request whose body has its key, and no
\* step of the request starts a generation or touches a channel, a frame,
\* the queue or the button interrupt.
C13_SetFrame ==
    [][/\ pulse1_high' # pulse1_high
             => (pc["httpd"] = "set_p1h" /\ Supplied("p1h"))
       /\ pulse1_low' # pulse1_low
             => (pc["httpd"] = "set_p1l" /\ Supplied("p1l"))
       /\ pulse2_high' # pulse2_high
             => (pc["httpd"] = "set_p2h" /\ Supplied("p2h"))
       /\ pulse2_low' # pulse2_low
             => (pc["httpd"] = "set_p2l" /\ Supplied("p2l"))
       /\ ((pc["httpd"] \in SetPcs \/ pc'["httpd"] \in SetPcs)
             /\ pc'["httpd"] # pc["httpd"])
             => /\ chan' = chan
                /\ loc' = loc
                /\ intr_enabled' = intr_enabled
                /\ button_evt_queue' = button_evt_queue
                /\ pc'["button"] = pc["button"]
                /\ pc'["httpd"] \in SetPcs \cup {"accept"}]_vars

\* C13's case: one whole request with p2l=100 and the unknown key foo was
\* served: pulse2_low is 100 and the other three globals are the defaults.
C13_Witness ==
    /\ requests = 1
    /\ pc["httpd"] = "accept"
    /\ resp.kind = "Parameters Set!"
    /\ params = <<Defaults[1], Defaults[2], Defaults[3], U32OfNat(100)>>

\* C17: the interrupt handler only disables its interrupt and posts one
\* event: a falling edge changes no task's position, no frame and no
\* channel, the queue grows by at most the one gpio number, and a task
\* enters send_double_pulse only by its own call, the button worker from
\* its delay after the receive.
C17_IsrOnlyHandsOff ==
    [][/\ presses' # presses
             => /\ pc' = pc /\ loc' = loc /\ chan' = chan
                /\ aborted' = aborted
                /\ \/ /\ button_evt_queue' = button_evt_queue
                      /\ intr_enabled' = intr_enabled
                   \/ /\ button_evt_queue' =
                            Append(button_evt_queue, BUTTON_GPIO)
                      /\ intr_enabled /\ ~intr_enabled'
       /\ (pc["button"] \notin SdpSet /\ pc'["button"] \in SdpSet)
             => (pc["button"] = "delay1" /\ pc'["button"] = "rd_p1h"
                   /\ presses' = presses)]_vars

\* C17's case: the handler has run once and the worker has not yet taken
\* the event.
C17_Witness ==
    /\ presses = 1
    /\ button_evt_queue = <<BUTTON_GPIO>>
    /\ ~intr_enabled
    /\ pc["button"] = "recv"
    /\ chan["P"].items = NoItems

\* C20: the queue never holds more than one event, so the handler's send
\* never meets a full queue, and no press that ran the handler is lost:
\* while the interrupt is disabled its event is queued or being served.
C20_QueueAtMostOne ==
    /\ Len(button_evt_queue) <= 1
    /\ Len(button_evt_queue) < QUEUE_LENGTH
    /\ ~intr_enabled => (button_evt_queue # <<>> \/ pc["button"] # "recv")

\* C20's case: a second edge fell while the first event was still queued.
C20_Witness ==
    /\ presses = 2
    /\ requests = 0
    /\ Len(button_evt_queue) = 1
    /\ pc["button"] = "recv"
    /\ chan["P"].items = NoItems
    /\ ~intr_enabled

\* The segments of an item array in the order a channel sends them.
Segments(items) ==
    [k \in 1..(2 * Len(items)) |->
        IF k % 2 = 1
        THEN [level |-> items[(k + 1) \div 2].level0,
              duration |-> items[(k + 1) \div 2].duration0]
        ELSE [level |-> items[k \div 2].level1,
              duration |-> items[k \div 2].duration1]]

RECURSIVE FirstZero(_, _)
FirstZero(segs, k) ==
    IF k > Len(segs) THEN k
    ELSE IF segs[k].duration = 0 THEN k ELSE FirstZero(segs, k + 1)

\* What an RMT channel sends of its memory: a duration of 0 is the end
\* marker, the channel stops there and sends nothing that follows.
Sent(items) ==
    LET segs == Segments(items)
    IN  SubSeq(segs, 1, FirstZero(segs, 1) - 1)

\* C18: a duration of 0 is harmless: a generation that read a 0 builds a
\* segment of length 0 in its place, every other segment has its value
\* times 80, and the channel goes on to send all of them.
C18_ZeroIsHarmless ==
    \A t \in Tasks :
        (pc[t] \in PostRead /\ \E i \in 1..4 : loc[t].snap[i] = Zero) =>
            LET segs == Segments(loc[t].items_p)
            IN  /\ Len(segs) = 4
                /\ \A i \in 1..4 :
                      ExactTicks(loc[t].snap[i], segs[i].duration)
                /\ \A i \in 1..4 :
                      (loc[t].snap[i] # Zero =>
                          \E k \in 1..Len(Sent(loc[t].items_p)) :
                              k = i /\ Sent(loc[t].items_p)[k] = segs[i])

\* The level-inversion of an item array: the same durations, every level
\* flipped.
Inversion(items) ==
    [i \in 1..Len(items) |->
        [duration0 |-> items[i].duration0, level0 |-> 1 - items[i].level0,
         duration1 |-> items[i].duration1, level1 |-> 1 - items[i].level1]]

\* C14: whenever both channels are sending, what the negative channel holds
\* is the level-inversion, with the same durations, of what the positive
\* channel holds.
C14_ChannelsComplementary ==
    (chan["P"].running /\ chan["N"].running) =>
        chan["N"].items = Inversion(chan["P"].items)

\* C15: a generation goes through its steps in order; a load starts no
\* channel, and no channel sends before both loads and the settling delay
\* are done; the second start follows the first; the call returns only when
\* neither channel is sending.
C15_TransmitProtocol ==
    [][\A t \in Tasks :
        /\ (pc[t] \in SdpSet /\ pc'[t] # pc[t]) =>
              \/ \E k \in 1..(Len(SdpPcs) - 1) :
                    pc[t] = SdpPcs[k] /\ pc'[t] = SdpPcs[k + 1]
              \/ /\ pc[t] = "waitN"
                 /\ pc'[t] = ReturnPc(t)
                 /\ \A c \in Channels : ~chan[c].running
        /\ (pc[t] \in {"writeP", "writeN"} /\ pc'[t] # pc[t]) =>
              \A c \in Channels : chan'[c].running = chan[c].running
        /\ pc'[t] \in {"writeN", "settle", "startP"} =>
              \A c \in Channels : ~chan'[c].running
      ]_vars

\* C19: a press the handler accepted is served and the interrupt is enabled
\* again: the program never stops for good while the interrupt is disabled.
C19_InterruptReenabled ==
    ~intr_enabled => ~aborted

\* C11: a failed load or start is reported and not retried: the trigger
\* whose generation failed is not answered "Triggered!", and after the
\* failure that generation loads and starts nothing a second time.
C11_FailureReported ==
    [][/\ (pc["httpd"] = "trig_resp" /\ pc'["httpd"] = "accept"
              /\ failed["httpd"] # "none") =>
            resp'.kind # "Triggered!"
       /\ \A t \in Tasks :
            (failed[t] # "none" /\ pc'[t] # pc[t]) =>
                pc'[t] \notin {"writeP", "writeN", "startP"}
      ]_vars

\* C16: no failure leaves one channel started and the other not: when a
\* generation's load of the negative channel fails, the positive channel is
\* not sending that generation's waveform beside a negative channel that
\* holds another.
C16_NoHalfStarted ==
    \A t \in Tasks :
        (failed[t] = "load" /\ pc[t] = "writeN") =>
            ~(chan["P"].running /\ chan["P"].items = loc[t].items_p
                /\ chan["N"].items # loc[t].items_n)

====
